---- MODULE Spec2Model ----
(***************************************************************************)
(* Basin identity resolution (agent_tools/basin_match_logic.py) and its    *)
(* tool wrapper (tools.py): the registry cache, the normalizer, the        *)
(* filter and the four-way result classification.                          *)
(*                                                                         *)
(* Text is a sequence of characters.  A character is one of the tokens     *)
(*   "K" "k" "o" "e"   Latin letters (upper-case K, lower-case k, o, e)    *)
(*   "OE" "oe"         the Danish letter O-slash, upper and lower case     *)
(*   "AE" "ae" "AA" "aa"  the other two Danish letters, both cases         *)
(*   "sp"              a blank                                             *)
(*   "dot" "lpar"      the punctuation characters . and (                  *)
(* None is Python's None, NaN the missing-cell marker of pandas.           *)
(***************************************************************************)
EXTENDS Integers, Sequences, FiniteSets, TLC

VARIABLES file, CACHE, heap, now, held, result, threads, layer, agent_scratchpad, nature

vars == <<file, CACHE, heap, now, held, result, threads, layer, agent_scratchpad, nature>>

(***************************************************************************)
(* Bounds of the model                                                     *)
(***************************************************************************)
\* longest registry table written to the registry file
MaxRows == 2
\* the clock runs up to MaxHours cache durations
MaxHours == 1
\* table snapshots a caller of _load_data keeps at one time
MaxHeld == 2
\* longest registry table written while callers use _load_data directly
MaxLoadRows == 1
\* requests running _load_data at the same time
NumThreads == 2
\* most features in the basin geometry layer
MaxFeatures == 2
\* longest text handed to _normalize on its own
MaxLen == 3
\* most rows of a selection a result is built from on its own
MaxMatches == 17
\* most features of the clipped nature layer
MaxNature == 3

\* line 107: the most candidates the message lists
MaxDetails == 15

(***************************************************************************)
(* Configuration (basin_match_logic.py, lines 7-10)                        *)
(***************************************************************************)
CACHE_DURATION == 3600

None == <<"None">>
NaN == <<"NaN">>
\* CACHE["df"] is None: no object
NoneRef == 0

(***************************************************************************)
(* Text                                                                    *)
(***************************************************************************)
Whitespace == {"sp"}

\* one character of str.lower()
Lower(c) ==
    CASE c = "K" -> "k"
      [] c = "OE" -> "oe"
      [] c = "AE" -> "ae"
      [] c = "AA" -> "aa"
      [] OTHER -> c

\* str.lower()
RECURSIVE lower(_)
lower(s) == IF s = <<>> THEN <<>> ELSE <<Lower(Head(s))>> \o lower(Tail(s))

\* str.strip(): blanks removed at both ends, kept inside
RECURSIVE lstrip(_)
lstrip(s) == IF s # <<>> /\ Head(s) \in Whitespace THEN lstrip(Tail(s)) ELSE s

RECURSIVE rstrip(_)
rstrip(s) ==
    IF s # <<>> /\ s[Len(s)] \in Whitespace THEN rstrip(SubSeq(s, 1, Len(s) - 1)) ELSE s

\* (variant: one blank at most is removed at each end)
strip_once(s) ==
    IF s = <<>> THEN s
    ELSE IF Head(s) \in Whitespace
         THEN (IF Len(s) > 1 /\ s[Len(s)] \in Whitespace
               THEN SubSeq(s, 2, Len(s) - 1) ELSE Tail(s))
    ELSE IF s[Len(s)] \in Whitespace THEN SubSeq(s, 1, Len(s) - 1)
    ELSE s

strip(s) == rstrip(lstrip(s))

\* str.replace(old, new) for a one-character old and a text new
RECURSIVE replace(_, _, _)
replace(s, old, new) ==
    IF s = <<>> THEN <<>>
    ELSE (IF Head(s) = old THEN new ELSE <<Head(s)>>) \o replace(Tail(s), old, new)

\* Python truth value of an Optional[str]: None and '' are false
Falsy(text) == text = None \/ text = <<>>

\* (variant: the Danish letters are folded before the text is lowered)
_normalize_fold_first(text) ==
    IF Falsy(text) THEN <<>>
    ELSE strip(lower(replace(replace(replace(text,
                                 "ae", <<"a", "e">>), "oe", <<"o", "e">>), "aa", <<"a", "a">>)))

\* _normalize: '' for a false value, else lower, strip, fold the Danish letters
_normalize(text) ==
    IF Falsy(text) THEN <<>>
    ELSE replace(replace(replace(strip(lower(text)),
                                 "ae", <<"a", "e">>), "oe", <<"o", "e">>), "aa", <<"a", "a">>)

(***************************************************************************)
(* Series.str.contains(pat, na=False): regex=True is the default, so pat   *)
(* is compiled as a regular expression and searched for in each value.     *)
(* Over the characters of this model: "dot" matches any one character, an  *)
(* unclosed "lpar" makes re.compile raise, every other character matches   *)
(* itself.                                                                 *)
(***************************************************************************)
re_compile_raises(pat) == \E j \in 1..Len(pat) : pat[j] = "lpar"

re_match_char(p, c) == p = "dot" \/ p = c

re_search(pat, s) ==
    \E i \in 1..(Len(s) + 1) :
        /\ i + Len(pat) - 1 <= Len(s)
        /\ \A j \in 1..Len(pat) : re_match_char(pat[j], s[i + j - 1])

str_contains(s, pat) == re_search(pat, s)

(***************************************************************************)
(* The registry file                                                       *)
(***************************************************************************)
Row(k, f) == [Kommune |-> k, Frakmt |-> f]

\* the rows registry files are made of: a municipality in upper case and
\* with a trailing blank, a missing municipality cell, and identifiers
\* holding the punctuation characters
RegistryRows ==
    { Row(<<"K", "OE", "sp">>, <<"k", "dot">>),
      Row(NaN, <<"k", "lpar">>) }

\* registry tables: up to MaxRows rows, in any order, repeated or not
Tables == UNION { [1..n -> RegistryRows] : n \in 0..MaxRows }

\* The field enc of a file says which reads of it succeed: "cp1252" = the
\* primary read (and the fallback read), "latin1" = only the fallback read,
\* "none" = neither.
AbsentFile == [exists |-> FALSE, enc |-> "none", cols |-> FALSE, rows |-> <<>>]

\* a file on disk; one that cannot be read or lacks a required column is
\* kept with no rows, as its rows are never seen
Files ==
    { [exists |-> TRUE, enc |-> e, cols |-> TRUE, rows |-> t] :
        e \in {"cp1252", "latin1"}, t \in Tables }
    \cup { [exists |-> TRUE, enc |-> e, cols |-> FALSE, rows |-> <<>>] :
        e \in {"cp1252", "latin1"} }
    \cup { [exists |-> TRUE, enc |-> "none", cols |-> FALSE, rows |-> <<>>] }

\* os.path.exists(csv_path)
path_exists(F) == F.exists

\* pd.read_csv(csv_path, encoding=enc, dtype=str, sep=',') raises
read_csv_raises(F, enc) ==
    CASE enc = "cp1252" -> F.enc # "cp1252"
      [] enc = "latin-1" -> F.enc = "none"

\* CSV_KOMMUNE_COL not in df.columns or CSV_FRAKMT_COL not in df.columns
columns_missing(F) == ~F.cols

\* one cell of fillna(''): a missing cell becomes the empty text
fillna_cell(c) == IF c = NaN THEN <<>> ELSE c

\* (variant: only the identifier column is filled)
fillna_frakmt_only(t) ==
    [i \in 1..Len(t) |-> Row(t[i].Kommune, fillna_cell(t[i].Frakmt))]

\* df[[Kommune, Frakmt]].fillna('')
fillna(t) == [i \in 1..Len(t) |-> Row(fillna_cell(t[i].Kommune), fillna_cell(t[i].Frakmt))]

(***************************************************************************)
(* Objects.  A DataFrame is an object of the heap: CACHE["df"] and the     *)
(* tables _load_data returns are references, so that a copy and an alias   *)
(* differ.  heap[r] is object r: whether it is in use, and its rows.        *)
(***************************************************************************)
Free == [live |-> FALSE, rows |-> <<>>]

Object(t) == [live |-> TRUE, rows |-> t]

Refs == 1..(MaxHeld + 3)

\* a new object: the least reference not in use
new_ref(H) == CHOOSE r \in Refs : ~H[r].live /\ \A q \in Refs : q < r => H[q].live

\* DataFrame.copy(): a new object with the same content
copy_to(H, r, c) == [ref |-> c, heap |-> [H EXCEPT ![c] = H[r]]]

df_copy(H, r) == copy_to(H, r, new_ref(H))

\* The references in use after a step: that of the cache, then those held by
\* callers.  Objects not among them are garbage; the others are renumbered in
\* this order, which keeps one representation of each heap.
root_seq(C, hs) ==
    (IF C.df = NoneRef THEN <<>> ELSE <<C.df>>) \o [i \in 1..Len(hs) |-> hs[i].ref]

first_at(seq, r) == CHOOSE i \in 1..Len(seq) : seq[i] = r /\ \A j \in 1..(i - 1) : seq[j] # r

renumber(seq, r) == Cardinality({seq[j] : j \in 1..first_at(seq, r)})

collect_to(C, H, hs, seq) ==
    [cache |-> [C EXCEPT !.df = IF C.df = NoneRef THEN NoneRef ELSE renumber(seq, C.df)],
     heap |-> [k \in Refs |->
                 IF \E i \in 1..Len(seq) : renumber(seq, seq[i]) = k
                 THEN H[seq[CHOOSE i \in 1..Len(seq) : renumber(seq, seq[i]) = k]]
                 ELSE Free],
     held |-> [i \in 1..Len(hs) |-> [hs[i] EXCEPT !.ref = renumber(seq, hs[i].ref)]]]

collect(C, H, hs) == collect_to(C, H, hs, root_seq(C, hs))

(***************************************************************************)
(* _load_data: the cached table if it is fresh, else the file read with    *)
(* the primary encoding and then with the fallback encoding.  The value is *)
(* the cache and heap after the call, the reference returned (NoneRef for  *)
(* None) and the number of file reads attempted.                           *)
(***************************************************************************)
\* (variant: a cached table is served whatever its age)
cache_fresh_forever(C, t) == C.df # NoneRef

\* (variant: a table as old as the cache duration still counts as fresh)
cache_fresh_inclusive(C, t) == C.df # NoneRef /\ t - C.load_time <= CACHE_DURATION

\* line 15: a table is cached and younger than the cache duration
cache_fresh(C, t) == C.df # NoneRef /\ t - C.load_time < CACHE_DURATION

\* (variant: the table is cached with load time 0, not the time of the call)
load_return_unstamped(d, t, c, nreads) ==
    [cache |-> [df |-> d, load_time |-> 0], heap |-> c.heap, ret |-> c.ref,
     reads |-> nreads]

\* lines 24-32 and 38-46: the table read is cached and a copy of it returned
load_return(d, t, c, nreads) ==
    [cache |-> [df |-> d, load_time |-> t], heap |-> c.heap, ret |-> c.ref,
     reads |-> nreads]

load_cache(d, H, F, t, nreads) ==
    load_return(d, t, df_copy([H EXCEPT ![d] = Object(fillna(F.rows))], d), nreads)

load_store(C, H, F, t, nreads) == load_cache(new_ref(H), H, F, t, nreads)

\* lines 47-50: both attempts failed
load_failed(C, H, nreads) ==
    [cache |-> [C EXCEPT !.df = NoneRef], heap |-> H, ret |-> NoneRef, reads |-> nreads]

\* (variant: the fallback attempt does not check the columns)
load_fallback_unchecked(C, H, F, t, nreads) ==
    IF read_csv_raises(F, "latin-1") THEN load_failed(C, H, nreads + 1)
    ELSE load_store(C, H, F, t, nreads + 1)

\* lines 36-50: the fallback attempt, entered on any exception of the first
load_fallback(C, H, F, t, nreads) ==
    IF read_csv_raises(F, "latin-1") THEN load_failed(C, H, nreads + 1)
    ELSE IF columns_missing(F) THEN load_failed(C, H, nreads + 1)
    ELSE load_store(C, H, F, t, nreads + 1)

\* lines 15-16: a fresh cache is served as a copy
load_serve(C, c) == [cache |-> C, heap |-> c.heap, ret |-> c.ref, reads |-> 0]

\* (variant: the cached object itself is returned)
load_cached_shared(C, H) == [cache |-> C, heap |-> H, ret |-> C.df, reads |-> 0]

load_cached(C, H) == load_serve(C, df_copy(H, C.df))

\* (variant: an absent file stamps the cache with the time of the call)
load_absent_stamped(C, H, t) ==
    [cache |-> [C EXCEPT !.load_time = t], heap |-> H, ret |-> NoneRef, reads |-> 0]

\* lines 19-21: the file does not exist; None is returned and the cache is
\* not written
load_absent(C, H, t) == [cache |-> C, heap |-> H, ret |-> NoneRef, reads |-> 0]

_load_data(C, H, F, t) ==
    IF cache_fresh(C, t) THEN load_cached(C, H)
    ELSE IF ~path_exists(F) THEN load_absent(C, H, t)
    ELSE IF read_csv_raises(F, "cp1252") THEN load_fallback(C, H, F, t, 1)
    ELSE IF columns_missing(F) THEN load_fallback(C, H, F, t, 1)
    ELSE load_store(C, H, F, t, 1)

(***************************************************************************)
(* find_basin_entries_main                                                 *)
(***************************************************************************)
\* (variant: only None counts as no query)
no_query_none_only(kq, iq) == kq = None /\ iq = None

\* (variant: a query that normalizes to the empty text counts as not given)
no_query_normalized(kq, iq) == _normalize(kq) = <<>> /\ _normalize(iq) = <<>>

\* line 63: neither query given
no_query(kq, iq) == Falsy(kq) /\ Falsy(iq)

\* lines 72-77: one filter on one row; a false query filters nothing
filter_cell(cell, q) == Falsy(q) \/ str_contains(_normalize(cell), _normalize(q))

\* lines 71-77: the mask, both filters joined by &=
mask(df, kq, iq) ==
    [i \in 1..Len(df) |-> filter_cell(df[i].Kommune, kq) /\ filter_cell(df[i].Frakmt, iq)]

\* lines 72-77: str.contains compiles the pattern of each query that is given,
\* and its exception is not caught in find_basin_entries_main
filter_raises(kq, iq) ==
    \/ ~Falsy(kq) /\ re_compile_raises(_normalize(kq))
    \/ ~Falsy(iq) /\ re_compile_raises(_normalize(iq))

\* line 79: df[mask], the rows kept in table order
RECURSIVE select(_, _)
select(df, m) ==
    IF df = <<>> THEN <<>>
    ELSE (IF m[1] THEN <<Head(df)>> ELSE <<>>)
         \o select(Tail(df), [i \in 1..(Len(df) - 1) |-> m[i + 1]])

\* (variant: any match is reported as the exact one)
classify_first(num_results) == IF num_results = 0 THEN "not_found" ELSE "found_exact"

\* lines 83, 86, 94: the status for num_results rows
classify(num_results) ==
    IF num_results = 0 THEN "not_found"
    ELSE IF num_results = 1 THEN "found_exact"
    ELSE "found_multiple"

\* (variant: the value used for matching is returned)
exact_value_normalized(cell) == _normalize(cell)

\* lines 90-91: a field of the one matching row, as stored
exact_value(cell) == cell

\* (variant: the first row of results_df is skipped)
matches_list_skip(results_df) ==
    [i \in 1..(Len(results_df) - 1) |->
        [identifier |-> results_df[i + 1].Frakmt, kommune |-> results_df[i + 1].Kommune]]

\* lines 96-101: one entry per row of results_df
matches_list(results_df) ==
    [i \in 1..Len(results_df) |->
        [identifier |-> results_df[i].Frakmt, kommune |-> results_df[i].Kommune]]

\* the message of a result that is not found_multiple is not modelled
NoMessage == [count |-> 0, details |-> <<>>]

\* line 108: one line "- ID: identifier (kommune)" per entry, in order
details(matches) == [i \in 1..Len(matches) |-> <<matches[i].identifier, matches[i].kommune>>]

\* (variant: the candidates are listed only when there are fewer than 15)
message_to_user_below(matches) ==
    [count |-> Len(matches),
     details |-> IF Len(matches) < MaxDetails THEN details(matches) ELSE <<>>]

\* lines 105-109: "Fandt {num_results} mulige bassiner. ..." and, for up to
\* 15 results, the lines of details
message_to_user(matches) ==
    [count |-> Len(matches),
     details |-> IF Len(matches) <= MaxDetails THEN details(matches) ELSE <<>>]

\* the result of a call that did not get as far as filtering
Outcome(st) ==
    [outcome |-> "returned", status |-> st, results_df |-> <<>>,
     basin_identifier |-> None, kommune |-> None, count |-> 0,
     message_to_user |-> NoMessage, matches_data |-> <<>>]

\* lines 66-68: the load reported failure
load_is_none(ret) == ret = NoneRef

\* lines 80-115: the result built from results_df
build_result(results_df, st) ==
    [outcome |-> "returned", status |-> st, results_df |-> results_df,
     basin_identifier |->
         IF st = "found_exact" THEN exact_value(results_df[1].Frakmt) ELSE None,
     kommune |->
         IF st = "found_exact" THEN exact_value(results_df[1].Kommune) ELSE None,
     count |-> IF st = "found_multiple" THEN Len(results_df) ELSE 0,
     message_to_user |->
         IF st = "found_multiple" THEN message_to_user(matches_list(results_df)) ELSE NoMessage,
     matches_data |-> IF st = "found_multiple" THEN matches_list(results_df) ELSE <<>>]

classify_result(results_df) == build_result(results_df, classify(Len(results_df)))

\* lines 70-115 on the table df
find_in(df, kq, iq) ==
    IF filter_raises(kq, iq)
    THEN [Outcome("none") EXCEPT !.outcome = "raised"]
    ELSE classify_result(select(df, mask(df, kq, iq)))

\* lines 66-115, after the load l
find_after_load(kq, iq, l) ==
    IF load_is_none(l.ret)
    THEN [out |-> Outcome("error"), cache |-> l.cache, heap |-> l.heap,
          called |-> TRUE, loaded |-> FALSE, df |-> <<>>, reads |-> l.reads]
    ELSE [out |-> find_in(l.heap[l.ret].rows, kq, iq),
          cache |-> l.cache, heap |-> l.heap,
          called |-> TRUE, loaded |-> TRUE, df |-> l.heap[l.ret].rows,
          reads |-> l.reads]

\* The whole function: what it returns (or that it raised), the cache and
\* heap it leaves, and what its load did.
find_basin_entries_main(kq, iq, C, H, F, t) ==
    IF no_query(kq, iq)
    THEN [out |-> Outcome("no_query"), cache |-> C, heap |-> H,
          called |-> FALSE, loaded |-> FALSE, df |-> <<>>, reads |-> 0]
    ELSE find_after_load(kq, iq, _load_data(C, H, F, t))

\* tools.py, BasinMatchTool._run: the result of the call, or status error
\* when the call raised
tool_status(out) == IF out.outcome = "raised" THEN "error" ELSE out.status

(***************************************************************************)
(* State                                                                   *)
(*   file    the registry file on disk                                     *)
(*   CACHE   the module-level cache: df (a reference or NoneRef) and       *)
(*           load_time                                                     *)
(*   heap    the DataFrame objects                                         *)
(*   now     time.time(), in seconds                                       *)
(*   held    the tables a direct caller of _load_data holds: the reference *)
(*           returned, the rows it had when returned, the time of the call *)
(*           and whether the caller has changed the table since            *)
(*   result  the call of the Basin_Match tool that has just returned: its  *)
(*           arguments, whether the cache was fresh when it was made, what *)
(*           the load did, what find_basin_entries_main returned (or that  *)
(*           it raised), and what the tool returned                        *)
(*   threads the requests running _load_data at the same time: for each    *)
(*           its position in the function and its local variable df        *)
(*   layer   the features of the basin geometry layer (BASIN_FINAL.gpkg)   *)
(*   agent_scratchpad  the (identifier, municipality) pairs that found_exact *)
(*           results of Basin_Match have carried in the running session     *)
(*   nature  a call of analyze_protected_nature_compact from line 62 on:    *)
(*           the clipped nature features, which of them meet, the features  *)
(*           meeting the basin and its buffer, connected_ids, the position  *)
(*           in the function and the iterations of the loop so far          *)
(***************************************************************************)
NatureFrame(clipped, meets, initial_ids, nearby_ids, connected_ids, pc, iterations) ==
    [nature_clipped |-> clipped, meets |-> meets, initial_ids |-> initial_ids,
     nearby_ids |-> nearby_ids, connected_ids |-> connected_ids,
     pc |-> pc, iterations |-> iterations]

NoNature == NatureFrame({}, {}, {}, {}, {}, "none", 0)

NoCall ==
    [op |-> "none", kq |-> None, iq |-> None, fresh |-> FALSE,
     called |-> FALSE, loaded |-> FALSE, df |-> <<>>, reads |-> 0,
     out |-> Outcome("none"), tool_status |-> "none"]

Init ==
    /\ file \in {AbsentFile} \cup Files
    /\ CACHE = [df |-> NoneRef, load_time |-> 0]
    /\ heap = [r \in Refs |-> Free]
    /\ now = 0
    /\ held = <<>>
    /\ result = NoCall
    /\ threads = <<>>
    /\ layer = <<>>
    /\ agent_scratchpad = {}
    /\ nature = NoNature

\* one cell of every registry row, as stored after fillna
StoredCells ==
    {fillna_cell(r.Kommune) : r \in RegistryRows} \cup {fillna_cell(r.Frakmt) : r \in RegistryRows}

\* query texts: absent, empty, blank, a partial identifier, and stored cells
Queries == {None, <<>>, <<"sp">>, <<"k">>} \cup StoredCells

\* clock steps: one second less than the cache duration, and the duration
TickSteps == {CACHE_DURATION - 1, CACHE_DURATION}

(* Environment: the file and the clock change between calls.              *)
(***************************************************************************)
idle == result.op = "none"

\* the registry file is written (regenerated offline)
file_written(f) ==
    /\ f # file
    /\ file' = f
    /\ UNCHANGED <<CACHE, heap, now, held, result, threads, layer, agent_scratchpad, nature>>

write_file(f) == idle /\ file_written(f)

\* the registry file is removed
file_removed ==
    /\ file.exists
    /\ file' = AbsentFile
    /\ UNCHANGED <<CACHE, heap, now, held, result, threads, layer, agent_scratchpad, nature>>

remove_file == idle /\ file_removed

\* time passes
time_passes(d) ==
    /\ now + d <= MaxHours * CACHE_DURATION
    /\ now' = now + d
    /\ UNCHANGED <<file, CACHE, heap, held, result, threads, layer, agent_scratchpad, nature>>

tick(d) == idle /\ time_passes(d)

(***************************************************************************)
(* tools.py, BasinMatchTool._run(kommune_query, basin_id_query): calls     *)
(* find_basin_entries_main and returns its result, or status error if it   *)
(* raised.  The table copy the call worked on is dropped on return.        *)
(***************************************************************************)
tool_store(c) ==
    /\ CACHE' = c.cache
    /\ heap' = c.heap
    /\ held' = c.held

tool_return(kq, iq, r) ==
    /\ tool_store(collect(r.cache, r.heap, held))
    /\ result' = [op |-> "Basin_Match", kq |-> kq, iq |-> iq,
                  fresh |-> CACHE.df # NoneRef /\ now - CACHE.load_time < CACHE_DURATION,
                  called |-> r.called, loaded |-> r.loaded, df |-> r.df,
                  reads |-> r.reads, out |-> r.out, tool_status |-> tool_status(r.out)]
    /\ UNCHANGED <<file, now, threads, layer, nature>>

BasinMatchTool_run(kq, iq) ==
    tool_return(kq, iq, find_basin_entries_main(kq, iq, CACHE, heap, file, now))

(***************************************************************************)
(* The agent (SYSTEM_PROMPT): it calls Basin_Match with the user's text;   *)
(* on found_exact it may call again with the exact values returned; then   *)
(* the turn ends.                                                          *)
(***************************************************************************)
\* step 1: Basin_Match on the user's input
agent_asks(kq, iq) ==
    /\ idle
    /\ BasinMatchTool_run(kq, iq)
    /\ UNCHANGED agent_scratchpad

\* step 2: Basin_Match again, on the values a found_exact result carries
agent_confirms ==
    /\ result.tool_status = "found_exact"
    /\ BasinMatchTool_run(result.out.kommune, result.out.basin_identifier)
    /\ UNCHANGED agent_scratchpad

\* the turn ends
agent_done ==
    /\ ~idle
    /\ result' = NoCall
    /\ UNCHANGED <<file, CACHE, heap, now, held, threads, layer, agent_scratchpad, nature>>

Next ==
    \/ \E f \in Files : write_file(f)
    \/ remove_file
    \/ \E d \in TickSteps : tick(d)
    \/ \E kq \in Queries, iq \in Queries : agent_asks(kq, iq)
    \/ agent_confirms
    \/ agent_done

Spec == Init /\ [][Next]_vars

(***************************************************************************)
(* Direct callers of _load_data: a caller loads the table and keeps what   *)
(* it got, changes a table it holds, or lets one go.                       *)
(***************************************************************************)
LoadFiles == {f \in Files : Len(f.rows) <= MaxLoadRows}

InitLoad ==
    /\ Init
    /\ file \in {AbsentFile} \cup LoadFiles

Snapshot(l, t) ==
    [ref |-> l.ret, returned |-> l.heap[l.ret].rows, at |-> t, mutated |-> FALSE]

load_keep(c) ==
    /\ CACHE' = c.cache
    /\ heap' = c.heap
    /\ held' = c.held
    /\ UNCHANGED <<file, now, result, threads, layer, agent_scratchpad, nature>>

\* the caller keeps the table returned, if one was
load_returns(l) ==
    load_keep(collect(l.cache, l.heap,
                      IF l.ret = NoneRef THEN held ELSE Append(held, Snapshot(l, now))))

\* df = _load_data()
caller_loads ==
    /\ Len(held) < MaxHeld
    /\ load_returns(_load_data(CACHE, heap, file, now))

\* the caller empties the table it holds (df.drop(df.index, inplace=True))
caller_mutates(i) ==
    /\ heap[held[i].ref].rows # <<>>
    /\ heap' = [heap EXCEPT ![held[i].ref].rows = <<>>]
    /\ held' = [held EXCEPT ![i].mutated = TRUE]
    /\ UNCHANGED <<file, CACHE, now, result, threads, layer, agent_scratchpad, nature>>

\* the caller lets go of a table
release(hs, i) == SubSeq(hs, 1, i - 1) \o SubSeq(hs, i + 1, Len(hs))

caller_releases(i) == load_keep(collect(CACHE, heap, release(held, i)))

NextLoad ==
    \/ \E f \in LoadFiles : write_file(f)
    \/ remove_file
    \/ \E d \in TickSteps : tick(d)
    \/ caller_loads
    \/ \E i \in 1..Len(held) : caller_mutates(i)
    \/ \E i \in 1..Len(held) : caller_releases(i)

SpecLoad == InitLoad /\ [][NextLoad]_vars

(***************************************************************************)
(* Requests that load the table one after the other: each call of          *)
(* _load_data runs to its return, the table returned is dropped, and the   *)
(* file and the clock change between the calls.  Here result describes the *)
(* last call: when it was made, the cache and the file it found, the reads *)
(* it attempted and what it returned.                                      *)
(***************************************************************************)
LoadCall(C, F, t, l) ==
    [op |-> "_load_data", at |-> t, had |-> C.df # NoneRef, age |-> t - C.load_time,
     file |-> F, reads |-> l.reads, failed |-> l.ret = NoneRef,
     returned |-> IF l.ret = NoneRef THEN <<>> ELSE l.heap[l.ret].rows,
     copied |-> l.ret # l.cache.df]

request_returns(l, c) ==
    /\ result' = LoadCall(CACHE, file, now, l)
    /\ CACHE' = c.cache
    /\ heap' = c.heap
    /\ UNCHANGED <<file, now, held, threads, layer, agent_scratchpad, nature>>

request_ends(l) == request_returns(l, collect(l.cache, l.heap, <<>>))

\* a request calls _load_data()
request_loads == request_ends(_load_data(CACHE, heap, file, now))

NextReload ==
    \/ \E f \in LoadFiles : file_written(f)
    \/ file_removed
    \/ \E d \in TickSteps : time_passes(d)
    \/ request_loads

SpecReload == InitLoad /\ [][NextReload]_vars

(***************************************************************************)
(* Requests that run _load_data at the same time (app.py serves each       *)
(* browser session on a thread of its own; the module and its CACHE are    *)
(* shared).  The function takes no lock, so its statements interleave.     *)
(* A step is: lines 14-15 (the clock and the cache are read), line 16,     *)
(* line 19, the primary read (24-28), the fallback read (37-42), the write *)
(* of CACHE["df"] (29, 43), the write of CACHE["load_time"] (30, 44), the  *)
(* return of the copy (32, 46), and lines 49-50.                           *)
(* threads[i] is the frame of request i: pc, its local variables now and   *)
(* df, whether the cache it read at line 15 had its table written and its  *)
(* load time not yet (torn), and what its last call returned (out).        *)
(***************************************************************************)
Threads == 1..NumThreads

Frame(pc, t, d, torn, out) == [pc |-> pc, now |-> t, df |-> d, torn |-> torn, out |-> out]

Idle == Frame("idle", 0, NoneRef, FALSE, "none")

InitThreads ==
    /\ file \in {AbsentFile} \cup LoadFiles
    /\ CACHE = [df |-> NoneRef, load_time |-> 0]
    /\ heap = [r \in Refs |-> Free]
    /\ now = 0
    /\ held = <<>>
    /\ result = NoCall
    /\ threads = [i \in Threads |-> Idle]
    /\ layer = <<>>
    /\ agent_scratchpad = {}
    /\ nature = NoNature

\* the objects the cache or the local df of a request refers to stay
sweep(C, H, T) ==
    [r \in Refs |-> IF r = C.df \/ \E i \in Threads : T[i].df = r THEN H[r] ELSE Free]

thread_step(i, f, C, H) ==
    /\ threads' = [threads EXCEPT ![i] = f]
    /\ CACHE' = C
    /\ heap' = sweep(C, H, threads')
    /\ UNCHANGED <<file, now, held, result, layer, agent_scratchpad, nature>>

\* another request is between line 29 and line 30 (or 43 and 44)
half_written(i) == \E j \in Threads : j # i /\ threads[j].pc = "store_time"

\* lines 14-15: now = time.time(); the test of the cache
thread_checks(i) ==
    /\ threads[i].pc = "idle"
    /\ thread_step(i, Frame(IF cache_fresh(CACHE, now) THEN "copy" ELSE "exists",
                            now, NoneRef, half_written(i), "none"),
                   CACHE, heap)

\* line 16: return CACHE["df"].copy(); None has no copy()
thread_copies(i) ==
    /\ threads[i].pc = "copy"
    /\ thread_step(i, [threads[i] EXCEPT !.pc = "idle",
                          !.out = IF CACHE.df = NoneRef THEN "raised" ELSE "table"],
                   CACHE, heap)

\* lines 19-21: os.path.exists
thread_finds_file(i) ==
    /\ threads[i].pc = "exists"
    /\ thread_step(i, IF path_exists(file) THEN [threads[i] EXCEPT !.pc = "read"]
                      ELSE [threads[i] EXCEPT !.pc = "idle", !.out = "None"],
                   CACHE, heap)

\* the table read becomes the local df, filled
thread_reads_table(i, r) ==
    thread_step(i, [threads[i] EXCEPT !.pc = "store_df", !.df = r],
                CACHE, [heap EXCEPT ![r] = Object(fillna(file.rows))])

\* lines 24-28: the primary read and the columns
thread_reads(i) ==
    /\ threads[i].pc = "read"
    /\ IF read_csv_raises(file, "cp1252") \/ columns_missing(file)
       THEN thread_step(i, [threads[i] EXCEPT !.pc = "fallback"], CACHE, heap)
       ELSE thread_reads_table(i, new_ref(heap))

\* lines 37-42: the fallback read and the columns
thread_rereads(i) ==
    /\ threads[i].pc = "fallback"
    /\ IF read_csv_raises(file, "latin-1") \/ columns_missing(file)
       THEN thread_step(i, [threads[i] EXCEPT !.pc = "clear"], CACHE, heap)
       ELSE thread_reads_table(i, new_ref(heap))

\* lines 29, 43: CACHE["df"] = df
thread_stores_df(i) ==
    /\ threads[i].pc = "store_df"
    /\ thread_step(i, [threads[i] EXCEPT !.pc = "store_time"],
                   [CACHE EXCEPT !.df = threads[i].df], heap)

\* lines 30, 44: CACHE["load_time"] = now
thread_stores_time(i) ==
    /\ threads[i].pc = "store_time"
    /\ thread_step(i, [threads[i] EXCEPT !.pc = "return"],
                   [CACHE EXCEPT !.load_time = threads[i].now], heap)

\* lines 32, 46: return df.copy()
thread_returns(i) ==
    /\ threads[i].pc = "return"
    /\ thread_step(i, [threads[i] EXCEPT !.pc = "idle", !.df = NoneRef, !.out = "table"],
                   CACHE, heap)

\* lines 49-50: CACHE["df"] = None; return None
thread_clears(i) ==
    /\ threads[i].pc = "clear"
    /\ thread_step(i, [threads[i] EXCEPT !.pc = "idle", !.out = "None"],
                   [CACHE EXCEPT !.df = NoneRef], heap)

NextThreads ==
    \/ \E f \in LoadFiles : file_written(f)
    \/ file_removed
    \/ \E d \in TickSteps : time_passes(d)
    \/ \E i \in Threads : thread_checks(i)
    \/ \E i \in Threads : thread_copies(i)
    \/ \E i \in Threads : thread_finds_file(i)
    \/ \E i \in Threads : thread_reads(i)
    \/ \E i \in Threads : thread_rereads(i)
    \/ \E i \in Threads : thread_stores_df(i)
    \/ \E i \in Threads : thread_stores_time(i)
    \/ \E i \in Threads : thread_returns(i)
    \/ \E i \in Threads : thread_clears(i)

SpecThreads == InitThreads /\ [][NextThreads]_vars

(***************************************************************************)
(* The spatial tools: each reads the basin layer, keeps the features of    *)
(* the municipality, then the features with the identifier.  A feature has *)
(* a municipality, the number New_FID and the texts Frakmt and             *)
(* Stedfaestelse, either of which may be missing (NaN).  Further           *)
(* characters: the digits and the letters "n" "a".                         *)
(***************************************************************************)
Digits == <<"0", "1", "2", "3", "4", "5", "6", "7", "8", "9">>

\* str() of a number that is not negative
RECURSIVE str_int(_)
str_int(n) == IF n < 10 THEN <<Digits[n + 1]>> ELSE str_int(n \div 10) \o <<Digits[(n % 10) + 1]>>

\* Series.astype(str) of a text cell: the missing marker becomes the text nan
astype_str(v) == IF v = NaN THEN <<"n", "a", "n">> ELSE v

Feature(k, fid, f, st) == [Kommune |-> k, New_FID |-> fid, Frakmt |-> f, Stedfaestelse |-> st]

\* the features layers are made of: two of one municipality written in two
\* cases, one with each text field missing, and two of another municipality
FeatureSet ==
    { Feature(<<"K", "OE">>, 1, <<"k", "1">>, NaN),
      Feature(<<"k", "oe">>, 12, NaN, <<"k", "1", "2">>),
      Feature(<<"K">>, 2, <<"K", "1">>, <<"1">>),
      Feature(<<"K">>, 21, <<"1", "2">>, <<"k", "1">>) }

Layers == UNION { [1..n -> FeatureSet] : n \in 0..MaxFeatures }

\* the identifiers and municipalities the tools are called with
Identifiers ==
    { <<"1">>, <<"1", "2">>, <<"k", "1">>, <<"K", "1">>, <<"k", "1", "2">>, <<"n", "a", "n">> }

Kommuner == { <<"K", "OE">>, <<"k", "oe">>, <<"K">>, <<"o">> }

\* gdf["Kommune"].str.lower() == kommune.lower()
kommune_mask(gdf, kommune) ==
    [i \in 1..Len(gdf) |-> gdf[i].Kommune # NaN /\ lower(gdf[i].Kommune) = lower(kommune)]

kommune_filter(gdf, kommune) == select(gdf, kommune_mask(gdf, kommune))

\* (New_FID.astype(str) == ident_str) | (Frakmt == ident_str) |
\* (Stedfaestelse == ident_str)
basin_filter(gdf, ident_str) ==
    [i \in 1..Len(gdf) |->
        \/ str_int(gdf[i].New_FID) = ident_str
        \/ gdf[i].Frakmt = ident_str
        \/ gdf[i].Stedfaestelse = ident_str]

\* get_basin_attributes.py: every column of IDENTIFIER_COLS is compared as
\* astype(str)
basin_filter_astype(gdf, ident_str) ==
    [i \in 1..Len(gdf) |->
        \/ str_int(gdf[i].New_FID) = ident_str
        \/ astype_str(gdf[i].Frakmt) = ident_str
        \/ astype_str(gdf[i].Stedfaestelse) = ident_str]

\* a message: its wording, and the identifier and municipality it names
Msg(wording, id, kommune) == [wording |-> wording, id |-> id, kommune |-> kommune]

NoMsg == Msg("", <<>>, <<>>)

\* what a function gives: the exception it raises ("" if none), the category
\* and error message of its payload, the features of the municipality and the
\* features it selected
ToolOut(raised, kategori, fejl, basin_gdf, selected) ==
    [raised |-> raised, kategori |-> kategori, fejl |-> fejl,
     basin_gdf |-> basin_gdf, selected |-> selected, attributes |-> <<>>]

\* get_basin_attributes.py, lines 55-76 and 104-107: the error message
attributes_fejl(basin_identifier, kommune, basin_gdf, selected) ==
    ToolOut("", "Bassin Attributter",
            IF basin_gdf = <<>>
            THEN Msg("Ingen bassiner fundet for kommune '{kommune}' i filen.", <<>>, kommune)
            ELSE IF selected = <<>>
            THEN Msg("Bassin ID '{id}' ikke fundet i '{kommune}'.", basin_identifier, kommune)
            ELSE IF Len(selected) > 1
            THEN Msg("Dataintegritetsfejl: Flere bassiner fundet for unikt ID '{id}' i '{kommune}'.",
                     basin_identifier, kommune)
            ELSE NoMsg,
            basin_gdf, selected)

\* (variant: the first of several selected features gives the attributes)
attributes_result_first(basin_identifier, kommune, basin_gdf, selected) ==
    IF selected = <<>>
    THEN attributes_fejl(basin_identifier, kommune, basin_gdf, selected)
    ELSE [attributes_fejl(basin_identifier, kommune, basin_gdf, <<selected[1]>>)
             EXCEPT !.selected = selected, !.attributes = <<selected[1]>>]

\* get_basin_attributes.py, lines 72-101: "attributes" is set from
\* selected_basin.iloc[0] in the last branch only
attributes_result(basin_identifier, kommune, basin_gdf, selected) ==
    [attributes_fejl(basin_identifier, kommune, basin_gdf, selected)
        EXCEPT !.attributes = IF Len(selected) = 1 THEN <<selected[1]>> ELSE <<>>]

attributes_in(basin_identifier, kommune, basin_gdf) ==
    attributes_result(basin_identifier, kommune, basin_gdf,
                      select(basin_gdf, basin_filter_astype(basin_gdf, basin_identifier)))

get_basin_attributes_main(gdf, basin_identifier, kommune) ==
    attributes_in(basin_identifier, kommune, kommune_filter(gdf, kommune))

\* check_natura2000.py, lines 17-30 and 72-78, and check_vp3_streams.py, lines
\* 26-39 and 99-105: both errors are ValueErrors caught in the function
analysis_result(kategori, basin_identifier, kommune, basin_gdf, selected) ==
    ToolOut("", kategori,
            IF basin_gdf = <<>>
            THEN Msg("Fejl under analyse: ValueError - Ingen bassiner fundet i kommune '{kommune}'",
                     <<>>, kommune)
            ELSE IF selected = <<>>
            THEN Msg("Fejl under analyse: ValueError - Bassin ID '{id}' ikke fundet i '{kommune}'",
                     basin_identifier, kommune)
            ELSE NoMsg,
            basin_gdf, selected)

analysis_in(kategori, basin_identifier, kommune, basin_gdf) ==
    analysis_result(kategori, basin_identifier, kommune, basin_gdf,
                    select(basin_gdf, basin_filter(basin_gdf, basin_identifier)))

analyze_natura2000_main(gdf, basin_identifier, kommune) ==
    analysis_in("Natura 2000", basin_identifier, kommune, kommune_filter(gdf, kommune))

analyze_vp3_streams_main(gdf, basin_identifier, kommune) ==
    analysis_in("VP3 Vandloeb & Kystvandopland", basin_identifier, kommune,
                kommune_filter(gdf, kommune))

\* check_species_bilag_iv.py, lines 36-73: both errors are returned
species_result(basin_identifier, kommune, basin_gdf, selected) ==
    ToolOut("", "Bilag-IV arter",
            IF basin_gdf = <<>>
            THEN Msg("Ingen bassin fundet i kommune '{kommune}'", <<>>, kommune)
            ELSE IF selected = <<>>
            THEN (IF kommune # <<>>
                  THEN Msg("Ingen bassin fundet med identifier '{id}' i kommune '{kommune}'",
                           basin_identifier, kommune)
                  ELSE Msg("Ingen bassin fundet med identifier '{id}'", basin_identifier, <<>>))
            ELSE NoMsg,
            basin_gdf, selected)

species_in(basin_identifier, kommune, basin_gdf) ==
    species_result(basin_identifier, kommune, basin_gdf,
                   select(basin_gdf, basin_filter(basin_gdf, basin_identifier)))

analyze_bilag_iv_arter(gdf, basin_identifier, kommune) ==
    species_in(basin_identifier, kommune, kommune_filter(gdf, kommune))

\* check_protected_nature.py: load_nature_data_near_basin (lines 8-11) raises
\* the ValueError of the municipality out of analyze_protected_nature_main;
\* analyze_protected_nature_compact (lines 44-60) returns that of the identifier
nature_result(basin_identifier, kommune, basin_gdf, selected) ==
    IF basin_gdf = <<>>
    THEN ToolOut("ValueError", "",
                 Msg("Ingen bassiner fundet i kommune '{kommune}'", <<>>, kommune),
                 basin_gdf, <<>>)
    ELSE ToolOut("", "Beskyttet natur",
                 IF selected = <<>>
                 THEN (IF kommune # <<>>
                       THEN Msg("Ingen bassin fundet med identifier '{id}' i kommune '{kommune}'",
                                basin_identifier, kommune)
                       ELSE Msg("Ingen bassin fundet med identifier '{id}'", basin_identifier, <<>>))
                 ELSE NoMsg,
                 basin_gdf, selected)

nature_in(basin_identifier, kommune, basin_gdf) ==
    nature_result(basin_identifier, kommune, basin_gdf,
                  select(basin_gdf, basin_filter(basin_gdf, basin_identifier)))

analyze_protected_nature_main(gdf, basin_identifier, kommune) ==
    nature_in(basin_identifier, kommune, kommune_filter(gdf, kommune))

\* generate_map.py, find_best_basin_match (lines 22-29): the identifier is
\* lowered and stripped and searched for (str.contains) in the lowered text of
\* one column after the other; the rows of the first column with a match
IDENTIFIER_COLS == <<"New_FID", "Frakmt", "Stedfaestelse">>

col_text(f, col) == IF col = "New_FID" THEN str_int(f.New_FID) ELSE astype_str(f[col])

match_col(df, col, ident) ==
    select(df, [i \in 1..Len(df) |-> str_contains(lower(col_text(df[i], col)), ident)])

first_match(m, rest) == IF m # <<>> THEN m ELSE rest

RECURSIVE match_cols(_, _, _)
match_cols(df, cols, ident) ==
    IF cols = <<>> THEN <<>>
    ELSE first_match(match_col(df, Head(cols), ident), match_cols(df, Tail(cols), ident))

find_best_basin_match(df, ident) == match_cols(df, IDENTIFIER_COLS, strip(lower(ident)))

\* generate_map.py, lines 47-51
map_result(basin_identifier, kommune, basin_gdf, selected) ==
    IF basin_gdf = <<>>
    THEN ToolOut("ValueError", "",
                 Msg("No basin found in municipality '{kommune}'", <<>>, kommune),
                 basin_gdf, <<>>)
    ELSE IF selected = <<>>
    THEN ToolOut("ValueError", "",
                 Msg("No basin found with identifier '{id}' in '{kommune}'",
                     basin_identifier, kommune),
                 basin_gdf, <<>>)
    ELSE ToolOut("", "", NoMsg, basin_gdf, selected)

map_in(basin_identifier, kommune, basin_gdf) ==
    IF re_compile_raises(strip(lower(basin_identifier)))
    THEN ToolOut("error", "", NoMsg, basin_gdf, <<>>)
    ELSE map_result(basin_identifier, kommune, basin_gdf,
                    find_best_basin_match(basin_gdf, basin_identifier))

generate_map(gdf, basin_identifier, kommune) ==
    map_in(basin_identifier, kommune, kommune_filter(gdf, kommune))

\* tools.py, the _run of a tool: the result of the function, or, if it raised,
\* a payload of category Fejl whose message names the type of the exception
run_result(out, unexpected) ==
    IF out.raised = "" THEN out
    ELSE [out EXCEPT !.kategori = "Fejl", !.fejl = Msg(unexpected, <<>>, <<>>)]

\* the call of a tool that has just returned
ToolCall(op, basin_identifier, kommune, out) ==
    [op |-> op, basin_identifier |-> basin_identifier, kommune |-> kommune, out |-> out]

tool_returns(op, basin_identifier, kommune, out) ==
    /\ idle
    /\ result' = ToolCall(op, basin_identifier, kommune, out)
    /\ UNCHANGED <<file, CACHE, heap, now, held, threads, layer, agent_scratchpad, nature>>

GetBasinAttributesTool_run(id, k) ==
    tool_returns("Get_Basin_Attributes", id, k,
                 run_result(get_basin_attributes_main(layer, id, k),
                            "Uventet fejl under Get_Basin_Attributes: {type}"))

CheckNatura2000OverlapTool_run(id, k) ==
    tool_returns("Check_Natura2000_Overlap", id, k,
                 run_result(analyze_natura2000_main(layer, id, k),
                            "Uventet fejl under Natura2000 analyse: {type}"))

CheckProtectedNatureTool_run(id, k) ==
    tool_returns("Check_Protected_Nature", id, k,
                 run_result(analyze_protected_nature_main(layer, id, k),
                            "Uventet fejl under par. 3 natur analyse: {type}"))

CheckBilagIVSpeciesTool_run(id, k) ==
    tool_returns("Check_Bilag_IV_Species", id, k,
                 run_result(analyze_bilag_iv_arter(layer, id, k),
                            "Uventet fejl under Bilag IV analyse: {type}"))

CheckVP3StreamsTool_run(id, k) ==
    tool_returns("Check_VP3_Streams", id, k,
                 run_result(analyze_vp3_streams_main(layer, id, k),
                            "Uventet fejl under VP3 vandloebsanalyse: {type}"))

GenerateBasinMapTool_run(id, k) ==
    tool_returns("Generate_Basin_Map", id, k,
                 run_result(generate_map(layer, id, k), "Fejl under kortgenerering: {type}"))

\* generate_pdf.py, create_simple_report_main, lines 110-117: the map of the
\* report; an exception of generate_map is noted and the report goes on
GenerateSimpleReportTool_run(id, k) ==
    tool_returns("Generate_Simple_Report", id, k,
                 run_result(generate_map(layer, id, k), "Kort Kritisk: {type}"))

\* the basin layer is replaced
layer_written(L) ==
    /\ idle
    /\ L # layer
    /\ layer' = L
    /\ UNCHANGED <<file, CACHE, heap, now, held, result, threads, agent_scratchpad, nature>>

InitTools ==
    /\ file = AbsentFile
    /\ CACHE = [df |-> NoneRef, load_time |-> 0]
    /\ heap = [r \in Refs |-> Free]
    /\ now = 0
    /\ held = <<>>
    /\ result = NoCall
    /\ threads = <<>>
    /\ layer \in Layers
    /\ agent_scratchpad = {}
    /\ nature = NoNature

NextTools ==
    \/ \E L \in Layers : layer_written(L)
    \/ \E id \in Identifiers, k \in Kommuner : GetBasinAttributesTool_run(id, k)
    \/ \E id \in Identifiers, k \in Kommuner : CheckNatura2000OverlapTool_run(id, k)
    \/ \E id \in Identifiers, k \in Kommuner : CheckProtectedNatureTool_run(id, k)
    \/ \E id \in Identifiers, k \in Kommuner : CheckBilagIVSpeciesTool_run(id, k)
    \/ \E id \in Identifiers, k \in Kommuner : CheckVP3StreamsTool_run(id, k)
    \/ \E id \in Identifiers, k \in Kommuner : GenerateBasinMapTool_run(id, k)
    \/ \E id \in Identifiers, k \in Kommuner : GenerateSimpleReportTool_run(id, k)
    \/ agent_done

SpecTools == InitTools /\ [][NextTools]_vars

(***************************************************************************)
(* The agent executor (main_agent.py, lines 62-72): it runs the tool call  *)
(* the language model asks for, with the arguments the model gives, and    *)
(* hands the result back.  The order of the calls is asked for in          *)
(* SYSTEM_PROMPT only; neither the executor nor a tool tests it.           *)
(***************************************************************************)
\* the texts the model passes to a tool: the cells of the registry and one
\* text of its own
ToolArgs == StoredCells \cup {<<"1">>}

InitAgent ==
    /\ file \in {AbsentFile} \cup LoadFiles
    /\ CACHE = [df |-> NoneRef, load_time |-> 0]
    /\ heap = [r \in Refs |-> Free]
    /\ now = 0
    /\ held = <<>>
    /\ result = NoCall
    /\ threads = <<>>
    /\ layer \in {L \in Layers : Len(L) < MaxFeatures}
    /\ agent_scratchpad = {}
    /\ nature = NoNature

\* what a result of Basin_Match adds to the scratchpad
resolved(r) ==
    IF r.tool_status = "found_exact" THEN {<<r.out.basin_identifier, r.out.kommune>>}
    ELSE {}

\* the model asks for Basin_Match
executor_runs_match(kq, iq) ==
    /\ idle
    /\ BasinMatchTool_run(kq, iq)
    /\ agent_scratchpad' = agent_scratchpad \cup resolved(result')

NextAgent ==
    \/ \E kq \in Queries, iq \in Queries : executor_runs_match(kq, iq)
    \/ \E id \in ToolArgs, k \in ToolArgs : GetBasinAttributesTool_run(id, k)
    \/ \E id \in ToolArgs, k \in ToolArgs : CheckNatura2000OverlapTool_run(id, k)
    \/ \E id \in ToolArgs, k \in ToolArgs : CheckProtectedNatureTool_run(id, k)
    \/ \E id \in ToolArgs, k \in ToolArgs : CheckBilagIVSpeciesTool_run(id, k)
    \/ \E id \in ToolArgs, k \in ToolArgs : CheckVP3StreamsTool_run(id, k)
    \/ \E id \in ToolArgs, k \in ToolArgs : GenerateBasinMapTool_run(id, k)
    \/ \E id \in ToolArgs, k \in ToolArgs : GenerateSimpleReportTool_run(id, k)
    \/ agent_done

SpecAgent == InitAgent /\ [][NextAgent]_vars

(***************************************************************************)
(* The resolver called with a blank query: as Spec, with every call having *)
(* a query of blanks only as its municipality or as its identifier.        *)
(***************************************************************************)
NextBlank ==
    \/ \E f \in Files : write_file(f)
    \/ remove_file
    \/ \E d \in TickSteps : tick(d)
    \/ \E q \in Queries : agent_asks(<<"sp">>, q)
    \/ \E q \in Queries : agent_asks(q, <<"sp">>)
    \/ agent_done

SpecBlank == Init /\ [][NextBlank]_vars

(***************************************************************************)
(* _normalize on its own: it is applied to a text, and to what it returned. *)
(* The texts are over a letter in both cases, the three Danish letters in   *)
(* both cases, a digit, a punctuation character and the blank.              *)
(***************************************************************************)
Alphabet == {"K", "k", "AE", "ae", "OE", "oe", "AA", "aa", "1", "dot", "sp"}

Texts == {None} \cup UNION { [1..n -> Alphabet] : n \in 0..MaxLen }

InitNormalize == Init /\ file = AbsentFile

NormalizeCall(text, out) ==
    [op |-> "_normalize", text |-> text, out |-> out, again |-> _normalize(out)]

normalize_called(text) ==
    /\ idle
    /\ result' = NormalizeCall(text, _normalize(text))
    /\ UNCHANGED <<file, CACHE, heap, now, held, threads, layer, agent_scratchpad, nature>>

NextNormalize ==
    \/ \E text \in Texts : normalize_called(text)
    \/ agent_done

SpecNormalize == InitNormalize /\ [][NextNormalize]_vars

(***************************************************************************)
(* Properties of find_basin_entries_main ("resolve")                       *)
(***************************************************************************)
returned == result.op = "Basin_Match" /\ result.out.outcome = "returned"

status == result.out.status

\* s holds sub as a plain run of characters
contains(s, sub) ==
    \E i \in 1..(Len(s) + 1) :
        i + Len(sub) - 1 <= Len(s) /\ SubSeq(s, i, i + Len(sub) - 1) = sub

\* a row passes a filter as the specification words it: the query is absent,
\* or the normalized cell holds the normalized query as a plain substring
plain_filter(cell, q) == Falsy(q) \/ contains(_normalize(cell), _normalize(q))

plain_mask(df, kq, iq) ==
    [i \in 1..Len(df) |-> plain_filter(df[i].Kommune, kq) /\ plain_filter(df[i].Frakmt, iq)]

\* the rows of the table the call worked on that the code's filters keep
kept == mask(result.df, result.kq, result.iq)

kept_rows == {i \in 1..Len(result.df) : kept[i]}

\* the table the call worked on is the cached one
served_from_cache == CACHE.df # NoneRef /\ heap[CACHE.df].rows = result.df

\* C1: with the table loaded and a query present, the rows resolve retains
\* are exactly those whose normalized municipality and identifier hold the
\* normalized queries as plain substrings, whatever characters the queries hold.
C1_PlainSubstringRows ==
    (returned /\ result.loaded)
        => result.out.results_df
               = select(result.df, plain_mask(result.df, result.kq, result.iq))

\* C2: with a query present and the table loaded, a call that returns gives
\* not_found iff no row is kept, found_exact iff exactly one, found_multiple
\* iff more than one.
C2_StatusByCount ==
    (returned /\ result.loaded)
        => /\ (status = "not_found") <=> (Cardinality(kept_rows) = 0)
           /\ (status = "found_exact") <=> (Cardinality(kept_rows) = 1)
           /\ (status = "found_multiple") <=> (Cardinality(kept_rows) > 1)

C2_Witness ==
    /\ returned
    /\ status = "found_multiple"
    /\ Cardinality(kept_rows) = 2

\* C3: found_exact carries the identifier and municipality of the one kept row
\* exactly as the cached table stores them.
C3_ExactStoredValues ==
    (returned /\ status = "found_exact")
        => /\ served_from_cache
           /\ \E i \in kept_rows :
                /\ kept_rows = {i}
                /\ result.out.basin_identifier = heap[CACHE.df].rows[i].Frakmt
                /\ result.out.kommune = heap[CACHE.df].rows[i].Kommune

C3_Witness ==
    /\ returned
    /\ status = "found_exact"
    /\ result.out.kommune = <<"K", "OE", "sp">>
    /\ result.out.kommune # _normalize(result.out.kommune)
    /\ result.out.kommune # result.kq

\* C4: a found_exact result is stable under re-query: the call made next with
\* the returned municipality and identifier returns found_exact with the same
\* two values.
C4_StableRequery ==
    [][(result.op = "Basin_Match" /\ result.out.status = "found_exact"
            /\ result'.op = "Basin_Match")
        => /\ result'.out.outcome = "returned"
           /\ result'.out.status = "found_exact"
           /\ result'.out.basin_identifier = result.out.basin_identifier
           /\ result'.out.kommune = result.out.kommune]_vars

\* C5: found_multiple lists every kept row once, in table order, with its
\* stored identifier and municipality, lists no other row, and count is the
\* length of the list and at least 2.
C5_MatchesComplete ==
    (returned /\ status = "found_multiple")
        => /\ Len(result.out.matches_data) = Cardinality(kept_rows)
           /\ \A i \in kept_rows :
                LET p == Cardinality({j \in kept_rows : j <= i})
                IN  result.out.matches_data[p]
                        = [identifier |-> result.df[i].Frakmt,
                           kommune |-> result.df[i].Kommune]
           /\ result.out.count = Len(result.out.matches_data)
           /\ result.out.count >= 2

C5_Witness ==
    /\ returned
    /\ status = "found_multiple"
    /\ result.out.count = 2
    /\ result.out.matches_data[1] # result.out.matches_data[2]
    /\ result.out.matches_data[2].kommune = <<>>

\* C6: find_basin_entries_main never raises: every call returns a result
\* whose status is one of the five.
C6_NeverRaises ==
    result.op = "Basin_Match"
        => /\ result.out.outcome = "returned"
           /\ status \in {"no_query", "error", "not_found", "found_exact", "found_multiple"}

\* the load of a call made now fails: the cache was not fresh, and the file
\* is absent, unreadable under both encodings, or lacks a required column
load_fails == ~result.fresh /\ (~file.exists \/ file.enc = "none" \/ ~file.cols)

\* C7: a call with a query present whose load fails returns status error.
C7_LoadFailureIsError ==
    (result.op = "Basin_Match" /\ ~(Falsy(result.kq) /\ Falsy(result.iq)) /\ load_fails)
        => returned /\ status = "error"

C7_Witness ==
    /\ result.op = "Basin_Match"
    /\ load_fails
    /\ file.exists /\ file.enc = "cp1252" /\ ~file.cols
    /\ status = "error"

\* C8, as claimed: with the registry file absent, a call with a municipality
\* query returns status error in every state of the cache.
C8_AbsentFileIsError ==
    (result.op = "Basin_Match" /\ ~Falsy(result.kq) /\ ~file.exists)
        => returned /\ status = "error"

\* C8, amended: with the registry file absent, a call with a municipality
\* query returns status error when the cache holds no fresh table (it is empty,
\* or its table is stale).
C8_AbsentFileIsErrorUnlessFresh ==
    (result.op = "Basin_Match" /\ ~Falsy(result.kq) /\ ~file.exists /\ ~result.fresh)
        => returned /\ status = "error"

C8_Witness ==
    /\ result.op = "Basin_Match"
    /\ ~Falsy(result.kq)
    /\ ~file.exists
    /\ CACHE.df # NoneRef /\ ~result.fresh
    /\ status = "error"

\* C9: a call with both queries absent (None or empty) returns no_query,
\* attempts no load, and leaves the cache (table and load time) as it was.
C9_NoQueryLeavesCache ==
    [][(result.op = "none" /\ result'.op = "Basin_Match"
            /\ Falsy(result'.kq) /\ Falsy(result'.iq))
        => /\ result'.out.outcome = "returned"
           /\ result'.out.status = "no_query"
           /\ ~result'.called
           /\ result'.reads = 0
           /\ CACHE' = CACHE
           /\ heap' = heap]_vars

C9_Witness ==
    /\ returned
    /\ status = "no_query"
    /\ result.kq = <<>> /\ result.iq = None
    /\ CACHE.df # NoneRef
    /\ now - CACHE.load_time >= CACHE_DURATION
    /\ file.exists

(***************************************************************************)
(* Properties of _load_data ("load")                                       *)
(***************************************************************************)
\* the call that returned held[i] was made within the cache duration of the
\* last successful load
in_window(i) ==
    /\ CACHE.load_time <= held[i].at
    /\ held[i].at - CACHE.load_time < CACHE_DURATION

\* C10: the tables returned by calls made within the cache duration of one
\* successful load are equal in content, and each is a copy of its own: a
\* caller changing one changes neither the cached table nor any other
\* returned table.
C10_CacheCoherence ==
    \A i \in 1..Len(held) :
        /\ \A j \in 1..Len(held) :
              (in_window(i) /\ in_window(j)) => held[i].returned = held[j].returned
        /\ ~held[i].mutated => heap[held[i].ref].rows = held[i].returned
        /\ (CACHE.df # NoneRef /\ in_window(i)) => heap[CACHE.df].rows = held[i].returned

C10_Witness ==
    /\ Len(held) = 2
    /\ in_window(1) /\ in_window(2)
    /\ held[1].at # held[2].at
    /\ held[1].mutated /\ ~held[2].mutated
    /\ held[2].returned # <<>>
    /\ CACHE.df # NoneRef
    /\ file.exists /\ file.cols /\ file.enc # "none"
    /\ fillna(file.rows) # heap[CACHE.df].rows

(***************************************************************************)
(* Properties of one call of _load_data after the other                    *)
(***************************************************************************)
load_called == result.op = "_load_data"

\* the call found a table in the cache younger than the cache duration
found_fresh == result.had /\ result.age < CACHE_DURATION

\* the call found a table in the cache that had reached the cache duration
found_expired == result.had /\ result.age >= CACHE_DURATION

\* the rows of the table the cache holds
cached_rows == heap[CACHE.df].rows

\* C11, as claimed: a call reads the registry file iff the cache holds no
\* table or the table's age is at least the cache duration, and a call at or
\* after expiry sets the load time to the time of the call.
C11_ReadsIffStale ==
    load_called =>
        /\ (result.reads > 0) <=> (~result.had \/ result.age >= CACHE_DURATION)
        /\ found_expired => CACHE.load_time = result.at

\* C11, amended: a call reads the registry file iff the cache holds no table
\* or the table's age is at least the cache duration, and the file exists; a
\* call that finds a younger table reads nothing and leaves the load time; a
\* call that finds no fresh table and loads the file sets the load time to the
\* time of the call and caches the table of the file, and one that fails
\* leaves the load time as it was.
C11_ReadsIffStaleAndPresent ==
    load_called =>
        /\ (result.reads > 0)
              <=> ((~result.had \/ result.age >= CACHE_DURATION) /\ result.file.exists)
        /\ found_fresh
              => /\ result.reads = 0
                 /\ ~result.failed
                 /\ CACHE.load_time = result.at - result.age
        /\ (~found_fresh /\ ~result.failed)
              => /\ CACHE.load_time = result.at
                 /\ CACHE.df # NoneRef
                 /\ cached_rows = fillna(result.file.rows)
        /\ (~found_fresh /\ result.failed) => CACHE.load_time = result.at - result.age

C11_Witness ==
    /\ load_called
    /\ result.had
    /\ result.age = CACHE_DURATION
    /\ result.reads = 1
    /\ ~result.failed
    /\ CACHE.load_time = result.at
    /\ result.at = CACHE_DURATION

\* C12: after a call that reports failure (file absent, both reads failed, or
\* a column missing) the cache holds no table, whatever it held before.
C12_FailureEmptiesCache ==
    (load_called /\ result.failed) => CACHE.df = NoneRef

\* a step that is a call of _load_data: the file and the clock stay
load_step == file' = file /\ now' = now

\* C13: the call that follows a failed call attempts the load again: it is not
\* served from the cache, and it either fails or returns the table of the file,
\* which the cache then holds with the time of the call; and every table
\* served is the one the cache holds after the call.
C13_RetryAfterFailure ==
    [][load_step
        => /\ (load_called /\ result.failed)
                 => /\ result'.op = "_load_data"
                    /\ ~(result'.had /\ result'.age < CACHE_DURATION)
                    /\ result'.reads > 0 \/ ~file.exists
                    /\ \/ result'.failed
                       \/ /\ result'.returned = fillna(file.rows)
                          /\ CACHE'.load_time = now
           /\ (result'.op = "_load_data" /\ ~result'.failed)
                 => /\ CACHE'.df # NoneRef
                    /\ heap'[CACHE'.df].rows = result'.returned]_vars

C13_Witness ==
    /\ load_called
    /\ result.failed
    /\ CACHE.df # NoneRef
    /\ cached_rows # <<>>
    /\ now - CACHE.load_time >= CACHE_DURATION
    /\ file.exists /\ file.cols /\ file.enc = "latin1"
    /\ fillna(file.rows) # cached_rows

\* the call went to the file: it found no fresh table, and the file exists
went_to_file == load_called /\ ~found_fresh /\ result.file.exists

\* C15: when the primary read succeeds and a required column is missing, the
\* call fails at once: one read only (no fallback read), the cache empty,
\* failure reported.
C15_MissingColumnsFatal ==
    (went_to_file /\ result.file.enc = "cp1252" /\ ~result.file.cols)
        => /\ result.reads = 1
           /\ result.failed
           /\ CACHE.df = NoneRef

\* C16: when the primary read fails, exactly one more read is made, with the
\* fallback encoding; if it succeeds with both columns the table is cached
\* with the time of the call and a copy of it returned, else the call fails.
C16_FallbackOnce ==
    (went_to_file /\ result.file.enc # "cp1252")
        => /\ result.reads = 2
           /\ IF result.file.enc = "latin1" /\ result.file.cols
              THEN /\ ~result.failed
                   /\ CACHE.df # NoneRef
                   /\ cached_rows = fillna(result.file.rows)
                   /\ CACHE.load_time = result.at
                   /\ result.returned = cached_rows
                   /\ result.copied
              ELSE /\ result.failed
                   /\ CACHE.df = NoneRef

C16_Witness ==
    /\ went_to_file
    /\ result.file.enc = "latin1" /\ result.file.cols
    /\ result.reads = 2
    /\ ~result.failed
    /\ result.returned # <<>>
    /\ result.at = CACHE_DURATION - 1
    /\ CACHE.load_time = result.at

no_null(t) == \A i \in 1..Len(t) : t[i].Kommune # NaN /\ t[i].Frakmt # NaN

\* C17: the table in the cache and the table a call returns, loaded with the
\* primary or the fallback encoding, hold no missing-cell marker in the
\* municipality and identifier columns.
C17_NoNullCells ==
    /\ CACHE.df # NoneRef => no_null(cached_rows)
    /\ (load_called /\ ~result.failed) => no_null(result.returned)

C17_Witness ==
    /\ went_to_file
    /\ result.file.enc = "latin1"
    /\ ~result.failed
    /\ ~no_null(result.file.rows)
    /\ result.returned # <<>>
    /\ result.returned[1].Kommune = <<>>
    /\ cached_rows = result.returned

(***************************************************************************)
(* Properties of concurrent calls of _load_data                            *)
(***************************************************************************)
\* request i has read the registry file in the call it is in
has_read(i) == threads[i].pc \in {"fallback", "store_df", "store_time", "return", "clear"}

\* C14: the test of the cache, the reload and the cache write are one
\* critical section: no two requests are both reloading the file at one time,
\* and no request reads the cache between another's write of the table and
\* its write of the load time.
C14_CriticalSection ==
    /\ \A i, j \in Threads : i # j => ~(has_read(i) /\ has_read(j))
    /\ \A i \in Threads : ~threads[i].torn

(***************************************************************************)
(* Properties of the spatial tools                                         *)
(***************************************************************************)
AnalysisTools ==
    {"Get_Basin_Attributes", "Check_Natura2000_Overlap", "Check_Protected_Nature",
     "Check_Bilag_IV_Species", "Check_VP3_Streams"}

MapTools == {"Generate_Basin_Map", "Generate_Simple_Report"}

\* the features of the layer in the municipality of the call
in_kommune == kommune_filter(layer, result.kommune)

\* feature f carries identifier id in one of its three fields, exactly
identity_equal(f, id) ==
    str_int(f.New_FID) = id \/ f.Frakmt = id \/ f.Stedfaestelse = id

exact_selection(gdf, id) == select(gdf, [i \in 1..Len(gdf) |-> identity_equal(gdf[i], id)])

\* C18: each of the five analysis tools selects, among the features of the
\* municipality, exactly those with str(New_FID), Frakmt or Stedfaestelse
\* equal to the identifier, so that all five select the same features.
C18_SameExactSelection ==
    (result.op \in AnalysisTools /\ in_kommune # <<>>)
        => result.out.selected = exact_selection(in_kommune, result.basin_identifier)

\* C19: the map tool and the report tool select only features that carry
\* the identifier in one of the three fields by exact equality.
C19_MapSelectsExactly ==
    result.op \in MapTools
        => \A i \in 1..Len(result.out.selected) :
              identity_equal(result.out.selected[i], result.basin_identifier)

\* the messages that say that the municipality has no basin, and those that
\* say that no basin of the municipality has the identifier
MunicipalityWordings ==
    {"Ingen bassiner fundet for kommune '{kommune}' i filen.",
     "Fejl under analyse: ValueError - Ingen bassiner fundet i kommune '{kommune}'",
     "Ingen bassin fundet i kommune '{kommune}'",
     "Ingen bassiner fundet i kommune '{kommune}'",
     "No basin found in municipality '{kommune}'"}

IdentifierWordings ==
    {"Bassin ID '{id}' ikke fundet i '{kommune}'.",
     "Fejl under analyse: ValueError - Bassin ID '{id}' ikke fundet i '{kommune}'",
     "Ingen bassin fundet med identifier '{id}' i kommune '{kommune}'",
     "No basin found with identifier '{id}' in '{kommune}'"}

\* C20: a spatial tool whose municipality filter leaves no feature returns
\* a message saying that the municipality has no basin, whatever the layer
\* holds under the identifier elsewhere; one whose municipality filter leaves
\* features and whose identity filter leaves none returns a message saying
\* that the identifier is not found in the municipality; the two differ.
C20_TwoDistinctErrors ==
    result.op \in AnalysisTools \cup {"Generate_Basin_Map"}
        => /\ in_kommune = <<>> => result.out.fejl.wording \in MunicipalityWordings
           /\ (in_kommune # <<>> /\ result.out.selected = <<>>)
                 => result.out.fejl.wording \in IdentifierWordings
           /\ MunicipalityWordings \cap IdentifierWordings = {}

\* C21: each of the five analysis functions returns a result and raises
\* nothing, for every identifier and municipality, the municipality without
\* basins and the identifier without feature included.
C21_EntryPointsNeverRaise ==
    result.op \in AnalysisTools => result.out.raised = ""

(***************************************************************************)
(* Properties of the agent executor                                        *)
(***************************************************************************)
\* C22: a tool that depends on an identifier runs on an (identifier,
\* municipality) pair only if an earlier Basin_Match call returned found_exact
\* with exactly that pair.
C22_ResolveBeforeUse ==
    result.op \in AnalysisTools \cup MapTools
        => <<result.basin_identifier, result.kommune>> \in agent_scratchpad

(***************************************************************************)
(* The result of find_basin_entries_main on its own (lines 80-115): it is  *)
(* built from selections of up to MaxMatches rows.  A selection has one    *)
(* stored row in all places but at most one, which has the other.          *)
(***************************************************************************)
StoredRows == {fillna(<<r>>)[1] : r \in RegistryRows}

Selections ==
    { [i \in 1..n |-> IF i = j THEN b ELSE a] :
        n \in 0..MaxMatches, j \in 0..MaxMatches, a \in StoredRows, b \in StoredRows }

InitMessage == Init /\ file = AbsentFile

BuildCall(results_df) ==
    [NoCall EXCEPT !.op = "build", !.out = classify_result(results_df)]

result_built(results_df) ==
    /\ idle
    /\ result' = BuildCall(results_df)
    /\ UNCHANGED <<file, CACHE, heap, now, held, threads, layer, agent_scratchpad, nature>>

NextMessage ==
    \/ \E results_df \in Selections : result_built(results_df)
    \/ agent_done

SpecMessage == InitMessage /\ [][NextMessage]_vars

(***************************************************************************)
(* analyze_protected_nature_compact from line 62 on.  The clipped features  *)
(* are numbered by their index.  meets holds the pairs of features whose    *)
(* geometries touch or intersect; a feature touches or intersects a union   *)
(* of geometries when it does so with one of them.  initial_ids and         *)
(* nearby_ids are the features intersecting the basin and its buffer.       *)
(***************************************************************************)
Pairs(ids) == {{f, g} : f \in ids, g \in ids} \ {{f} : f \in ids}

InitNature ==
    /\ file = AbsentFile
    /\ CACHE = [df |-> NoneRef, load_time |-> 0]
    /\ heap = [r \in Refs |-> Free]
    /\ now = 0
    /\ held = <<>>
    /\ result = NoCall
    /\ threads = <<>>
    /\ layer = <<>>
    /\ agent_scratchpad = {}
    /\ \E n \in 0..MaxNature :
          \E meets \in SUBSET Pairs(1..n), initial_ids \in SUBSET (1..n),
             nearby_ids \in SUBSET (1..n) :
              nature = NatureFrame(1..n, meets, initial_ids, nearby_ids, {}, "seeds", 0)

\* (variant: only the features meeting a seed feature are looked for)
expanded_filter_seeds(N) ==
    {f \in N.nature_clipped :
        \E g \in N.initial_ids \cup N.nearby_ids : {f, g} \in N.meets \/ f = g}

\* lines 78-80: the features touching or intersecting the union of the
\* connected ones
expanded_filter(N) ==
    {f \in N.nature_clipped : \E g \in N.connected_ids : {f, g} \in N.meets \/ f = g}

\* line 81
new_ids(N) == expanded_filter(N) \ N.connected_ids

nature_step(N) ==
    /\ nature' = N
    /\ UNCHANGED <<file, CACHE, heap, now, held, result, threads, layer, agent_scratchpad>>

\* lines 67-76: connected_ids = initial_ids | nearby_ids; the loop is
\* entered only with a connected feature
connected_seeded ==
    /\ nature.pc = "seeds"
    /\ nature_step([nature EXCEPT
           !.connected_ids = nature.initial_ids \cup nature.nearby_ids,
           !.pc = IF nature.initial_ids \cup nature.nearby_ids # {} THEN "while" ELSE "done"])

\* lines 77-84: one iteration that finds new features
connected_updated ==
    /\ nature.pc = "while"
    /\ new_ids(nature) # {}
    /\ nature_step([nature EXCEPT
           !.connected_ids = nature.connected_ids \cup new_ids(nature),
           !.iterations = nature.iterations + 1])

\* lines 77-83: the iteration that finds none, and breaks
loop_breaks ==
    /\ nature.pc = "while"
    /\ new_ids(nature) = {}
    /\ nature_step([nature EXCEPT !.pc = "done", !.iterations = nature.iterations + 1])

NextNature ==
    \/ connected_seeded
    \/ connected_updated
    \/ loop_breaks

SpecNature == InitNature /\ [][NextNature]_vars

\* the function runs on: a call that has started goes on to its next line
SpecNatureRuns == SpecNature /\ WF_vars(NextNature)

(***************************************************************************)
(* Properties of _normalize                                                *)
(***************************************************************************)
normalized == result.op = "_normalize"

UpperCase == {"K", "AE", "OE", "AA"}

DanishLetters == {"AE", "ae", "OE", "oe", "AA", "aa"}

chars(s) == {s[i] : i \in 1..Len(s)}

\* the transliteration of one character, in lower case
Fold(c) ==
    CASE c \in {"AE", "ae"} -> <<"a", "e">>
      [] c \in {"OE", "oe"} -> <<"o", "e">>
      [] c \in {"AA", "aa"} -> <<"a", "a">>
      [] c = "K" -> <<"k">>
      [] OTHER -> <<c>>

RECURSIVE fold_all(_)
fold_all(s) == IF s = <<>> THEN <<>> ELSE Fold(Head(s)) \o fold_all(Tail(s))

\* s without the blanks at its ends
trimmed(s) ==
    IF \A i \in 1..Len(s) : s[i] \in Whitespace THEN <<>>
    ELSE SubSeq(s, CHOOSE i \in 1..Len(s) : s[i] \notin Whitespace
                           /\ \A j \in 1..(i - 1) : s[j] \in Whitespace,
                   CHOOSE i \in 1..Len(s) : s[i] \notin Whitespace
                           /\ \A j \in (i + 1)..Len(s) : s[j] \in Whitespace)

\* C23: normalizing a normalized text changes nothing.
C23_NormalizeIdempotent ==
    normalized => result.again = result.out

C23_Witness ==
    /\ normalized
    /\ result.text = <<"sp", "AE", "sp">>
    /\ result.out = <<"a", "e">>
    /\ result.again = result.out

\* C24: _normalize gives the text lowered, trimmed of the blanks at its ends
\* and with the three Danish letters, of either case, written as ae, oe and
\* aa: no Danish letter and no upper-case letter is left; an absent or empty
\* text gives the empty text.
C24_NormalizeFolds ==
    normalized
        => /\ chars(result.out) \cap (DanishLetters \cup UpperCase) = {}
           /\ result.out = (IF result.text = None THEN <<>> ELSE fold_all(trimmed(result.text)))
           /\ Falsy(result.text) => result.out = <<>>

C24_Witness ==
    /\ normalized
    /\ result.text = <<"AA", "sp", "OE">>
    /\ result.out = <<"a", "a", "sp", "o", "e">>

\* C25: the message of a found_multiple result states the count, and lists
\* every candidate, identifier and municipality, in the order of
\* matches_data exactly when there are at most 15; from 16 on it lists none
\* while matches_data still carries them all.
C25_MessageListsUpTo15 ==
    (result.op \in {"build", "Basin_Match"} /\ result.out.status = "found_multiple")
        => LET out == result.out
               listed == out.message_to_user.details
           IN  /\ out.message_to_user.count = out.count
               /\ out.count = Len(out.results_df)
               /\ Len(out.matches_data) = out.count
               /\ \A i \in 1..out.count :
                      /\ out.matches_data[i].identifier = out.results_df[i].Frakmt
                      /\ out.matches_data[i].kommune = out.results_df[i].Kommune
               /\ out.count <= 15
                      => /\ Len(listed) = out.count
                         /\ \A i \in 1..out.count :
                                listed[i] = <<out.matches_data[i].identifier,
                                              out.matches_data[i].kommune>>
               /\ out.count >= 16 => listed = <<>>

C25_Witness ==
    /\ result.op = "build"
    /\ result.out.status = "found_multiple"
    /\ result.out.count = 15
    /\ Len(result.out.message_to_user.details) = 15
    /\ result.out.message_to_user.details[15] # result.out.message_to_user.details[1]

\* C26: a request that found the cache fresh at line 15 gets a copy of a
\* table at line 16: its call never raises because the table was cleared by
\* another request in between.
C26_FreshCopyNeverRaises ==
    \A i \in Threads : threads # <<>> => threads[i].out # "raised"

\* C27: a table in the cache that a load has stored with its load time and
\* that is still fresh is never replaced by None.
C27_FreshTableKept ==
    [][(/\ threads # <<>>
        /\ cache_fresh(CACHE, now)
        /\ \A i \in Threads : threads[i].pc # "store_time")
           => CACHE'.df # NoneRef]_vars

\* the features of the municipality that pass the identity filter of the
\* attributes tool: the identifier equals the text of one of the three fields
passing ==
    select(in_kommune,
           [i \in 1..Len(in_kommune) |->
               \/ str_int(in_kommune[i].New_FID) = result.basin_identifier
               \/ astype_str(in_kommune[i].Frakmt) = result.basin_identifier
               \/ astype_str(in_kommune[i].Stedfaestelse) = result.basin_identifier])

\* C28: get_basin_attributes_main gives attributes only when exactly one
\* feature of the municipality passes the identity filter, and they are that
\* feature's; with none or with several it gives an error message and no
\* attributes.
C28_AttributesOfExactlyOne ==
    result.op = "Get_Basin_Attributes"
        => /\ result.out.raised = ""
           /\ Len(passing) = 1
                  => result.out.attributes = passing /\ result.out.fejl = NoMsg
           /\ Len(passing) # 1
                  => result.out.attributes = <<>> /\ result.out.fejl # NoMsg

C28_Witness ==
    /\ result.op = "Get_Basin_Attributes"
    /\ Len(passing) = 2
    /\ result.out.attributes = <<>>
    /\ result.out.fejl.id = result.basin_identifier

\* a query that is given but normalizes to the empty text
blank(q) == ~Falsy(q) /\ _normalize(q) = <<>>

\* the rows of the table that the filter of query q on column col keeps
kept_by(col, q) ==
    select(result.df, [i \in 1..Len(result.df) |-> filter_cell(result.df[i][col], q)])

\* the status of a selection of n rows
status_of(n) ==
    IF n = 0 THEN "not_found" ELSE IF n = 1 THEN "found_exact" ELSE "found_multiple"

\* C29: a query that is given but normalizes to the empty text restricts
\* nothing: the call is not no_query, it loads the table, and it classifies
\* the rows that the other query's filter keeps, the whole table when the
\* other query is absent or blank too.
C29_BlankQueryKeepsAll ==
    /\ (result.op = "Basin_Match" /\ (blank(result.kq) \/ blank(result.iq)))
           => status # "no_query" /\ result.called
    /\ (returned /\ result.loaded /\ blank(result.kq))
           => /\ result.out.results_df = kept_by("Frakmt", result.iq)
              /\ status = status_of(Len(kept_by("Frakmt", result.iq)))
              /\ (Falsy(result.iq) \/ blank(result.iq)) => result.out.results_df = result.df
    /\ (returned /\ result.loaded /\ blank(result.iq))
           => /\ result.out.results_df = kept_by("Kommune", result.kq)
              /\ status = status_of(Len(kept_by("Kommune", result.kq)))
              /\ (Falsy(result.kq) \/ blank(result.kq)) => result.out.results_df = result.df

C29_Witness ==
    /\ returned
    /\ result.loaded
    /\ result.kq = <<"sp">>
    /\ result.iq = None
    /\ Len(result.df) = 2
    /\ status = "found_multiple"
    /\ result.out.count = 2

\* the seed features: those intersecting the basin or its buffer
seed_ids == nature.initial_ids \cup nature.nearby_ids

\* the chains of up to all clipped features, each meeting the next
chains ==
    UNION { {c \in [1..k -> nature.nature_clipped] :
                \A i \in 1..(k - 1) : {c[i], c[i + 1]} \in nature.meets} :
            k \in 1..Cardinality(nature.nature_clipped) }

\* the features at the end of a chain that starts at a seed feature
reachable_ids == {c[Len(c)] : c \in {d \in chains : d[1] \in seed_ids}}

\* C30, on exit: the loop has made at most as many iterations as there are
\* clipped features, and connected_ids is the set of features reachable from
\* the seeds through chains of touching or intersecting features.
C30_ExitReachable ==
    /\ nature.iterations <= Cardinality(nature.nature_clipped)
    /\ nature.pc = "done" => nature.connected_ids = reachable_ids

\* C30, in the loop: connected_ids only grows.
C30_OnlyGrows ==
    nature.pc = "while" => nature.connected_ids \subseteq nature'.connected_ids

\* C30: the expansion loop of analyze_protected_nature_compact terminates,
\* after at most as many iterations as there are clipped features;
\* connected_ids only grows, and on exit it is the set of clipped features
\* reachable from the seed features through chains of touching or
\* intersecting features.
C30_ExpansionTerminates ==
    /\ []C30_ExitReachable
    /\ [][C30_OnlyGrows]_vars
    /\ <>(nature.pc = "done")

C30_Witness ==
    /\ nature.pc = "done"
    /\ Cardinality(nature.nature_clipped) = 3
    /\ Cardinality(seed_ids) = 1
    /\ nature.iterations = 3
    /\ nature.connected_ids = nature.nature_clipped

====
